---- MODULE Spec2Model ----
(***************************************************************************)
(* Model of src/parking_and_notification.ino: the access-control and       *)
(* occupancy state machine of the parking gate controller.                 *)
(*                                                                         *)
(* One pass of loop() is four consecutive steps, in the order of the code: *)
(*   "refresh" updateAvailableSlots + updateLCDDisplay   (lines 96-100)    *)
(*   "card"    the RFID block                            (lines 102-126)   *)
(*   "entry"   the entry-sensor block                    (lines 128-144)   *)
(*   "exit"    the exit-sensor block                     (lines 146-165)   *)
(* pc names the step that runs next; pc = "refresh" is the cycle boundary. *)
(* The environment (pins, card reader) is sampled by the step that reads   *)
(* it and latched in a variable so that properties can refer to it.        *)
(***************************************************************************)
EXTENDS Integers, Sequences, FiniteSets, TLC

VARIABLES
    availableSlots,   \* int availableSlots                       (line 51)
    gateOpen,         \* bool gateOpen                            (line 52)
    lastCardIndex,    \* int lastCardIndex                        (line 53)
    vehicleEntering,  \* bool vehicleEntering                     (line 54)
    pc,               \* position inside loop()
    slotPins,         \* levels of SLOT1..SLOT4 at the last refresh
    rfid,             \* UID bytes read in this cycle's card step, or NoCard
    entryPin,         \* level of ENTRY_SENSOR_PIN at this cycle's entry step
    exitPin,          \* level of EXIT_SENSOR_PIN at this cycle's exit step
    servo,            \* gateServo.write angles issued in this cycle
    gsm,              \* SMS handed to the GSM module in this cycle
    lcd,              \* second line of the LCD
    branches,         \* branches of loop() taken in this cycle
    everGranted,      \* history: some card was granted access
    lastEntered,      \* history: card index of the last completed entry
    replaced          \* history: card index of the pending session that the
                      \* latest grant replaced, -1 when it replaced none

vars == <<availableSlots, gateOpen, lastCardIndex, vehicleEntering, pc,
          slotPins, rfid, entryPin, exitPin, servo, gsm, lcd, branches,
          everGranted, lastEntered, replaced>>

---------------------------------------------------------------------------
(* Static configuration *)

\* Strings that the code builds or compares character by character are
\* sequences of one-character strings.
authorizedCards ==
    << <<"A","1"," ","B","2"," ","C","3"," ","D","4">>,
       <<"E","5"," ","F","6"," ","G","7"," ","H","8">>,
       <<"1","1"," ","2","2"," ","3","3"," ","4","4">> >>

NUM_AUTHORIZED_CARDS == 3

userPhoneNumbers == <<"+1234567890", "+1234567891", "+1234567892">>

totalSlots == 4

LOW == "LOW"
HIGH == "HIGH"
Levels == {LOW, HIGH}

SlotIds == 1..4

NoCard == <<>>

\* UIDs the reader may deliver (rfid.uid.uidByte[0 .. size-1]).
SampleUids ==
    { <<161, 178, 195, 212>>,    \* A1 B2 C3 D4 : authorizedCards[0]
      <<17, 34, 51, 68>>,        \* 11 22 33 44 : authorizedCards[2]
      <<255, 255, 255, 255>>,    \* FF FF FF FF : unknown
      <<10, 27, 195, 212>> }     \* 0A 1B C3 D4 : unknown, bytes below 0x10

EnteredText == "Your vehicle has entered the parking. Available slots: "
ExitedText == "Your vehicle has exited the parking. Thank you!"
DeniedText == "Access Denied!  "

---------------------------------------------------------------------------
(* getCardUID *)

HexDigits == <<"0","1","2","3","4","5","6","7","8","9","a","b","c","d","e","f">>

\* String(b, HEX): lower-case hexadecimal without leading zero.
StringHEX(b) ==
    IF b < 16 THEN <<HexDigits[b + 1]>>
    ELSE <<HexDigits[(b \div 16) + 1], HexDigits[(b % 16) + 1]>>

UpperChar(c) ==
    CASE c = "a" -> "A" [] c = "b" -> "B" [] c = "c" -> "C"
      [] c = "d" -> "D" [] c = "e" -> "E" [] c = "f" -> "F"
      [] OTHER -> c

toUpperCase(s) == [i \in 1..Len(s) |-> UpperChar(s[i])]

RECURSIVE ConcatBytes(_)
ConcatBytes(bytes) ==
    IF bytes = <<>> THEN <<>>
    ELSE (IF Head(bytes) < 16 THEN <<" ", "0">> ELSE <<" ">>)
         \o StringHEX(Head(bytes)) \o ConcatBytes(Tail(bytes))

getCardUID(bytes) ==
    LET cardUID == toUpperCase(ConcatBytes(bytes))
    IN  IF cardUID = <<>> THEN <<>> ELSE Tail(cardUID)

---------------------------------------------------------------------------
(* checkAuthorization: linear scan, first match wins, -1 when none *)

RECURSIVE ScanFrom(_, _)
ScanFrom(cardUID, i) ==
    IF i >= NUM_AUTHORIZED_CARDS THEN -1
    ELSE IF cardUID = authorizedCards[i + 1] THEN i
    ELSE ScanFrom(cardUID, i + 1)

checkAuthorization_DefaultFirst(cardUID) ==
    LET r == ScanFrom(cardUID, 0) IN IF r = -1 THEN 0 ELSE r

checkAuthorization_OneBased(cardUID) ==
    LET r == ScanFrom(cardUID, 0) IN IF r = -1 THEN -1 ELSE r + 1

checkAuthorization_SkipFirst(cardUID) == ScanFrom(cardUID, 1)

checkAuthorization(cardUID) == ScanFrom(cardUID, 0)

---------------------------------------------------------------------------
(* updateAvailableSlots *)

Occupied(pins, k) == IF pins[k] = LOW THEN 1 ELSE 0

occupiedSlots(pins) ==
    Occupied(pins, 1) + Occupied(pins, 2) + Occupied(pins, 3) + Occupied(pins, 4)

updateAvailableSlots_SkipSlot4(pins) ==
    totalSlots - (Occupied(pins, 1) + Occupied(pins, 2) + Occupied(pins, 3))

updateAvailableSlots(pins) == totalSlots - occupiedSlots(pins)

\* updateLCDDisplay: line 2 of the display
updateLCDDisplay(slots) == "Free Slots: " \o ToString(slots)

---------------------------------------------------------------------------
(* Gate and GSM *)

\* The gate as the pair gateOpen / servo commands issued so far.
Gate == [open |-> gateOpen, servo |-> servo]

openGate_NoFlag(g) == [open |-> g.open, servo |-> Append(g.servo, 90)]

openGate(g) == [open |-> TRUE, servo |-> Append(g.servo, 90)]

closeGate_NoFlag(g) == [open |-> g.open, servo |-> Append(g.servo, 0)]

closeGate(g) == [open |-> FALSE, servo |-> Append(g.servo, 0)]

sendSMS(log, phoneNumber, message) ==
    Append(log, [to |-> phoneNumber, text |-> message])

determineExitingVehicle_DefaultFirst ==
    IF lastCardIndex >= 0 THEN lastCardIndex ELSE 0

determineExitingVehicle == lastCardIndex

---------------------------------------------------------------------------
(* Bodies of the entry and exit blocks *)

EntrySlots_Unguarded(a) == a - 1

\* lines 133-134
EntrySlots(a) == IF a > 0 THEN a - 1 ELSE a

EntryNotify_Always(before, after, log) ==
    IF lastCardIndex >= 0
    THEN sendSMS(log, userPhoneNumbers[lastCardIndex + 1],
                 EnteredText \o ToString(after))
    ELSE log

EntryNotify_StaleCount(before, after, log) ==
    IF before > 0 /\ lastCardIndex >= 0
    THEN sendSMS(log, userPhoneNumbers[lastCardIndex + 1],
                 EnteredText \o ToString(before))
    ELSE log

\* lines 133-140: the SMS is sent inside "if (availableSlots > 0)",
\* after the decrement
EntryNotify(before, after, log) ==
    IF before > 0 /\ lastCardIndex >= 0
    THEN sendSMS(log, userPhoneNumbers[lastCardIndex + 1],
                 EnteredText \o ToString(after))
    ELSE log

ExitSlots_OffByOne(a) == IF a < totalSlots - 1 THEN a + 1 ELSE a

ExitSlots_Unguarded(a) == a + 1

\* lines 154-155
ExitSlots(a) == IF a < totalSlots THEN a + 1 ELSE a

ExitNotify_Always(before, log) ==
    LET leavingCardIndex == determineExitingVehicle
    IN  IF leavingCardIndex >= 0
        THEN sendSMS(log, userPhoneNumbers[leavingCardIndex + 1], ExitedText)
        ELSE log

\* lines 154-162
ExitNotify(before, log) ==
    IF before < totalSlots
    THEN LET leavingCardIndex == determineExitingVehicle
         IN  IF leavingCardIndex >= 0
             THEN sendSMS(log, userPhoneNumbers[leavingCardIndex + 1], ExitedText)
             ELSE log
    ELSE log

---------------------------------------------------------------------------
(* State machine *)

\* State after setup(): globals as initialised, closeGate() called once.
Init ==
    /\ availableSlots = 4
    /\ gateOpen = FALSE
    /\ lastCardIndex = -1
    /\ vehicleEntering = FALSE
    /\ pc = "refresh"
    /\ slotPins = [k \in SlotIds |-> HIGH]
    /\ rfid = NoCard
    /\ entryPin = HIGH
    /\ exitPin = HIGH
    /\ servo = <<0>>
    /\ gsm = <<>>
    /\ lcd = updateLCDDisplay(4)
    /\ branches = {}
    /\ everGranted = FALSE
    /\ lastEntered = -1
    /\ replaced = -1

\* lines 96-100
Refresh ==
    /\ pc = "refresh"
    /\ \E pins \in [SlotIds -> Levels] :
          /\ slotPins' = pins
          /\ availableSlots' = updateAvailableSlots(pins)
          /\ lcd' = updateLCDDisplay(updateAvailableSlots(pins))
    /\ servo' = <<>>
    /\ gsm' = <<>>
    /\ branches' = {}
    /\ rfid' = NoCard
    /\ pc' = "card"
    /\ UNCHANGED <<gateOpen, lastCardIndex, vehicleEntering, entryPin, exitPin,
                   everGranted, lastEntered, replaced>>

\* line 103: no new card
NoCardPresent ==
    /\ pc = "card"
    /\ rfid' = NoCard
    /\ pc' = "entry"
    /\ UNCHANGED <<availableSlots, gateOpen, lastCardIndex, vehicleEntering,
                   slotPins, entryPin, exitPin, servo, gsm, lcd, branches,
                   everGranted, lastEntered, replaced>>

AccessGranted_KeepFirst ==
    /\ pc = "card"
    /\ \E uid \in SampleUids :
          LET cardIndex == checkAuthorization(getCardUID(uid))
              g == openGate(Gate)
          IN  /\ cardIndex >= 0
              /\ rfid' = uid
              /\ lastCardIndex' = IF vehicleEntering THEN lastCardIndex
                                  ELSE cardIndex
              /\ vehicleEntering' = TRUE
              /\ gateOpen' = g.open
              /\ servo' = g.servo
    /\ branches' = branches \cup {"granted"}
    /\ everGranted' = TRUE
    /\ replaced' = IF vehicleEntering THEN lastCardIndex ELSE -1
    /\ pc' = "entry"
    /\ UNCHANGED <<availableSlots, slotPins, entryPin, exitPin, gsm, lcd,
                   lastEntered>>

\* lines 103-114: a card whose UID checkAuthorization finds
AccessGranted ==
    /\ pc = "card"
    /\ \E uid \in SampleUids :
          LET cardIndex == checkAuthorization(getCardUID(uid))
              g == openGate(Gate)
          IN  /\ cardIndex >= 0
              /\ rfid' = uid
              /\ lastCardIndex' = cardIndex
              /\ vehicleEntering' = TRUE
              /\ gateOpen' = g.open
              /\ servo' = g.servo
    /\ branches' = branches \cup {"granted"}
    /\ everGranted' = TRUE
    /\ replaced' = IF vehicleEntering THEN lastCardIndex ELSE -1
    /\ pc' = "entry"
    /\ UNCHANGED <<availableSlots, slotPins, entryPin, exitPin, gsm, lcd,
                   lastEntered>>

AccessDenied_EndsSession ==
    /\ pc = "card"
    /\ \E uid \in SampleUids :
          LET cardIndex == checkAuthorization(getCardUID(uid))
          IN  /\ ~(cardIndex >= 0)
              /\ rfid' = uid
    /\ lcd' = DeniedText
    /\ vehicleEntering' = FALSE
    /\ branches' = branches \cup {"denied"}
    /\ pc' = "entry"
    /\ UNCHANGED <<availableSlots, gateOpen, lastCardIndex,
                   slotPins, entryPin, exitPin, servo, gsm, everGranted,
                   lastEntered, replaced>>

\* lines 103-109, 115-120: a card whose UID checkAuthorization does not find
AccessDenied ==
    /\ pc = "card"
    /\ \E uid \in SampleUids :
          LET cardIndex == checkAuthorization(getCardUID(uid))
          IN  /\ ~(cardIndex >= 0)
              /\ rfid' = uid
    /\ lcd' = DeniedText
    /\ branches' = branches \cup {"denied"}
    /\ pc' = "entry"
    /\ UNCHANGED <<availableSlots, gateOpen, lastCardIndex, vehicleEntering,
                   slotPins, entryPin, exitPin, servo, gsm, everGranted,
                   lastEntered, replaced>>

EntryComplete_KeepSession ==
    /\ pc = "entry"
    /\ gateOpen /\ vehicleEntering
    /\ entryPin' = LOW
    /\ availableSlots' = EntrySlots(availableSlots)
    /\ gsm' = EntryNotify(availableSlots, EntrySlots(availableSlots), gsm)
    /\ LET g == closeGate(Gate)
       IN  gateOpen' = g.open /\ servo' = g.servo
    /\ vehicleEntering' = vehicleEntering
    /\ branches' = branches \cup {"entry"}
    /\ lastEntered' = lastCardIndex
    /\ pc' = "exit"
    /\ UNCHANGED <<lastCardIndex, slotPins, rfid, exitPin, lcd, everGranted,
                   replaced>>

\* lines 129-144: the condition of line 129 holds
EntryComplete ==
    /\ pc = "entry"
    /\ gateOpen /\ vehicleEntering
    /\ entryPin' = LOW
    /\ availableSlots' = EntrySlots(availableSlots)
    /\ gsm' = EntryNotify(availableSlots, EntrySlots(availableSlots), gsm)
    /\ LET g == closeGate(Gate)
       IN  gateOpen' = g.open /\ servo' = g.servo
    /\ vehicleEntering' = FALSE
    /\ branches' = branches \cup {"entry"}
    /\ lastEntered' = lastCardIndex
    /\ pc' = "exit"
    /\ UNCHANGED <<lastCardIndex, slotPins, rfid, exitPin, lcd, everGranted,
                   replaced>>

\* line 129: the condition fails. The pin is read only when gateOpen and
\* vehicleEntering both hold (&& short-circuits); its level is latched
\* either way.
EntryIdle ==
    /\ pc = "entry"
    /\ \E level \in Levels :
          /\ ~(gateOpen /\ vehicleEntering /\ level = LOW)
          /\ entryPin' = level
    /\ pc' = "exit"
    /\ UNCHANGED <<availableSlots, gateOpen, lastCardIndex, vehicleEntering,
                   slotPins, rfid, exitPin, servo, gsm, lcd, branches,
                   everGranted, lastEntered, replaced>>

ExitTraversal_LeavesOpen ==
    /\ pc = "exit"
    /\ exitPin' = LOW
    /\ availableSlots' = ExitSlots(availableSlots)
    /\ gsm' = ExitNotify(availableSlots, gsm)
    /\ LET g == openGate(Gate)
       IN  gateOpen' = g.open /\ servo' = g.servo
    /\ branches' = branches \cup {"exit"}
    /\ pc' = "refresh"
    /\ UNCHANGED <<lastCardIndex, vehicleEntering, slotPins, rfid, entryPin,
                   lcd, everGranted, lastEntered, replaced>>

\* lines 147-165: the exit sensor reads LOW
ExitTraversal ==
    /\ pc = "exit"
    /\ exitPin' = LOW
    /\ availableSlots' = ExitSlots(availableSlots)
    /\ gsm' = ExitNotify(availableSlots, gsm)
    /\ LET g == closeGate(openGate(Gate))
       IN  gateOpen' = g.open /\ servo' = g.servo
    /\ branches' = branches \cup {"exit"}
    /\ pc' = "refresh"
    /\ UNCHANGED <<lastCardIndex, vehicleEntering, slotPins, rfid, entryPin,
                   lcd, everGranted, lastEntered, replaced>>

\* line 147: the exit sensor reads HIGH
ExitIdle ==
    /\ pc = "exit"
    /\ exitPin' = HIGH
    /\ pc' = "refresh"
    /\ UNCHANGED <<availableSlots, gateOpen, lastCardIndex, vehicleEntering,
                   slotPins, rfid, entryPin, servo, gsm, lcd, branches,
                   everGranted, lastEntered, replaced>>

Next ==
    \/ Refresh
    \/ NoCardPresent
    \/ AccessGranted
    \/ AccessDenied
    \/ EntryComplete
    \/ EntryIdle
    \/ ExitTraversal
    \/ ExitIdle

Spec == Init /\ [][Next]_vars

---------------------------------------------------------------------------
(* Type invariant *)

TypeOK ==
    /\ availableSlots \in Int
    /\ gateOpen \in BOOLEAN
    /\ lastCardIndex \in -1..(NUM_AUTHORIZED_CARDS - 1)
    /\ vehicleEntering \in BOOLEAN
    /\ pc \in {"refresh", "card", "entry", "exit"}
    /\ slotPins \in [SlotIds -> Levels]
    /\ rfid \in SampleUids \cup {NoCard}
    /\ entryPin \in Levels
    /\ exitPin \in Levels
    /\ branches \subseteq {"granted", "denied", "entry", "exit"}
    /\ everGranted \in BOOLEAN

---------------------------------------------------------------------------
(* Vocabulary of the properties *)

\* The identifier is one of the records of the static table.
InDirectory(cardUID) ==
    \E i \in 1..Len(authorizedCards) : authorizedCards[i] = cardUID

\* The (0-based) index the table configures for an identifier it holds.
DirectoryIndex(cardUID) ==
    (CHOOSE i \in 1..Len(authorizedCards) : authorizedCards[i] = cardUID) - 1

\* Number of slot sensors reporting "occupied".
OccupiedCount(pins) == Cardinality({k \in SlotIds : pins[k] = LOW})

IsEntered(m) == \E n \in -1..(totalSlots + 1) : m.text = EnteredText \o ToString(n)
IsExited(m) == m.text = ExitedText

\* The steps of one cycle, recognised by the position they start from.
CardStep == pc = "card" /\ pc' = "entry"
Presented == CardStep /\ rfid' # NoCard
EntryStep == pc = "entry" /\ pc' = "exit"
ExitStep == pc = "exit" /\ pc' = "refresh"
CycleEnd == pc = "refresh"

\* The entry-completion condition of line 129, and the exit condition of
\* line 147, on the levels sampled by the step.
EntryCompletes == EntryStep /\ gateOpen /\ vehicleEntering /\ entryPin' = LOW
ExitRuns == ExitStep /\ exitPin' = LOW

---------------------------------------------------------------------------
(* C1 *)

\* C1: in every reachable state, inside a cycle and at its boundaries,
\* 0 <= availableSlots <= totalSlots: an entry completion never drives the
\* count below 0 and an exit traversal never drives it above totalSlots.
C1_SlotsInRange == 0 <= availableSlots /\ availableSlots <= totalSlots

\* An entry completed in a cycle whose four slots were all occupied.
C1_Witness ==
    /\ pc = "exit"
    /\ "entry" \in branches
    /\ OccupiedCount(slotPins) = totalSlots
    /\ availableSlots = 0

---------------------------------------------------------------------------
(* C2 *)

\* C2: when the presented identifier is not in the directory,
\* checkAuthorization returns -1 and the card step changes neither gateOpen
\* nor vehicleEntering nor lastCardIndex, commands no servo move and sends
\* no SMS.
C2_DeniedNoGateAction ==
    [][ (Presented /\ ~InDirectory(getCardUID(rfid')))
          => /\ checkAuthorization(getCardUID(rfid')) = -1
             /\ UNCHANGED <<gateOpen, vehicleEntering, lastCardIndex,
                            servo, gsm>> ]_vars

\* A card was denied at a closed gate with no session: the gate is still
\* closed and no session exists.
C2_Witness ==
    /\ pc = "entry"
    /\ "denied" \in branches
    /\ rfid = <<255, 255, 255, 255>>
    /\ ~gateOpen
    /\ ~vehicleEntering
    /\ lastCardIndex = -1

---------------------------------------------------------------------------
(* C3 *)

\* C3 as stated: every presentation of an identifier of the directory, in
\* any reachable state, returns the configured index, makes the session
\* active with that index, and makes gateOpen go from FALSE to TRUE exactly
\* once.
C3_Original ==
    [][ (Presented /\ InDirectory(getCardUID(rfid')))
          => /\ checkAuthorization(getCardUID(rfid'))
                  = DirectoryIndex(getCardUID(rfid'))
             /\ lastCardIndex' = DirectoryIndex(getCardUID(rfid'))
             /\ vehicleEntering'
             /\ ~gateOpen /\ gateOpen' ]_vars

\* C3 (amended): every presentation of an identifier of the directory
\* returns the configured index, makes the session active with that index,
\* commands the servo open exactly once and leaves the gate OPEN; gateOpen
\* goes from FALSE to TRUE exactly once when the gate was CLOSED, and does
\* not change when the gate was already OPEN.
C3_GrantedOpensGate ==
    [][ (Presented /\ InDirectory(getCardUID(rfid')))
          => /\ checkAuthorization(getCardUID(rfid'))
                  = DirectoryIndex(getCardUID(rfid'))
             /\ lastCardIndex' = DirectoryIndex(getCardUID(rfid'))
             /\ vehicleEntering'
             /\ gateOpen'
             /\ servo' = Append(servo, 90) ]_vars

\* Card "11 22 33 44" was granted: session active with index 2, gate open.
C3_Witness ==
    /\ pc = "entry"
    /\ "granted" \in branches
    /\ rfid = <<17, 34, 51, 68>>
    /\ lastCardIndex = 2
    /\ vehicleEntering
    /\ gateOpen
    /\ servo = <<90>>

---------------------------------------------------------------------------
(* C4 *)

\* C4: at the end of every cycle in which the entry-completion branch or the
\* exit branch ran, the gate is CLOSED (gateOpen is FALSE and the last servo
\* command of the cycle is 0), whatever availableSlots was and whether or
\* not an SMS was sent.
C4_GateClosedAfterSequence ==
    (CycleEnd /\ ("entry" \in branches \/ "exit" \in branches))
        => /\ ~gateOpen
           /\ servo # <<>>
           /\ servo[Len(servo)] = 0

\* A cycle ended in which an entry completed at availableSlots = 0 (no SMS)
\* and no exit ran.
C4_Witness ==
    /\ CycleEnd
    /\ branches = {"granted", "entry"}
    /\ gsm = <<>>
    /\ ~gateOpen

---------------------------------------------------------------------------
(* C5 *)

\* C5 as stated: when an entry completes with availableSlots = 0, the count
\* stays 0, an "entered" SMS is still sent to the session's card holder, the
\* gate is closed and the session ends.
C5_Original ==
    [][ (EntryCompletes /\ availableSlots = 0)
          => /\ availableSlots' = 0
             /\ \E k \in 1..Len(gsm') :
                   /\ IsEntered(gsm'[k])
                   /\ gsm'[k].to = userPhoneNumbers[lastCardIndex + 1]
             /\ ~gateOpen'
             /\ ~vehicleEntering' ]_vars

\* C5 (amended): when an entry completes with availableSlots = 0, the count
\* stays 0, no "entered" SMS is sent, the gate is closed and the session
\* ends.
C5_FullLotEntry ==
    [][ (EntryCompletes /\ availableSlots = 0)
          => /\ availableSlots' = 0
             /\ gsm' = gsm
             /\ \A k \in 1..Len(gsm') : ~IsEntered(gsm'[k])
             /\ ~gateOpen'
             /\ servo' = Append(servo, 0)
             /\ ~vehicleEntering' ]_vars

\* An entry has just completed in a full lot.
C5_Witness ==
    /\ pc = "exit"
    /\ "entry" \in branches
    /\ OccupiedCount(slotPins) = totalSlots
    /\ entryPin = LOW
    /\ gsm = <<>>
    /\ ~gateOpen
    /\ ~vehicleEntering

---------------------------------------------------------------------------
(* C6 *)

\* C6: when an entry completes with the refreshed availableSlots = f > 0 and
\* session card index i, the entry branch sets availableSlots to f - 1,
\* sends exactly one SMS, the "entered" text carrying f - 1, to
\* userPhoneNumbers[i], closes the gate and ends the session.
C6_EntryWithCapacity ==
    [][ (EntryCompletes /\ availableSlots > 0)
          => /\ availableSlots = totalSlots - OccupiedCount(slotPins)
             /\ availableSlots' = availableSlots - 1
             /\ gsm' = << [to   |-> userPhoneNumbers[lastCardIndex + 1],
                           text |-> EnteredText \o ToString(availableSlots - 1)] >>
             /\ ~gateOpen'
             /\ ~vehicleEntering' ]_vars

\* The scenario of the specification: all four slots free, card
\* "A1 B2 C3 D4" entered, 3 slots left, SMS to the first number.
C6_Witness ==
    /\ pc = "exit"
    /\ "entry" \in branches
    /\ rfid = <<161, 178, 195, 212>>
    /\ OccupiedCount(slotPins) = 0
    /\ availableSlots = 3
    /\ gsm = << [to |-> "+1234567890", text |-> EnteredText \o "3"] >>
    /\ ~gateOpen
    /\ ~vehicleEntering

---------------------------------------------------------------------------
(* C7 *)

\* C7: as long as no card has ever been granted, every exit traversal
\* commands the gate open and then closed, increments availableSlots by one
\* if and only if it was below totalSlots, leaves the gate CLOSED and sends
\* no SMS.
C7_ExitWithoutEntry ==
    [][ (ExitRuns /\ ~everGranted)
          => /\ servo' = servo \o <<90, 0>>
             /\ ~gateOpen'
             /\ availableSlots' = IF availableSlots < totalSlots
                                  THEN availableSlots + 1
                                  ELSE availableSlots
             /\ gsm' = <<>> ]_vars

\* An exit ran with a slot occupied and no card ever granted: the count is
\* one above the refreshed value.
C7_Witness ==
    /\ CycleEnd
    /\ ~everGranted
    /\ "exit" \in branches
    /\ availableSlots = totalSlots - OccupiedCount(slotPins) + 1
    /\ servo = <<90, 0>>
    /\ gsm = <<>>

---------------------------------------------------------------------------
(* C8 *)

\* C8: the first step of every cycle sets availableSlots to totalSlots minus
\* the number of slot sensors reporting occupied, whatever availableSlots
\* was before, and the value is a function of the readings alone.
C8_RefreshFromSensors ==
    [][ (pc = "refresh")
          => /\ pc' = "card"
             /\ availableSlots' = totalSlots - OccupiedCount(slotPins')
             /\ \A pins \in [SlotIds -> Levels] :
                   updateAvailableSlots(pins) = totalSlots - OccupiedCount(pins) ]_vars

\* A refresh after a completed entry reads all slots free and reports
\* totalSlots again.
C8_Witness ==
    /\ pc = "card"
    /\ lastEntered >= 0
    /\ OccupiedCount(slotPins) = 0
    /\ availableSlots = totalSlots

---------------------------------------------------------------------------
(* C9 *)

\* C9 as stated: every "exited" SMS is addressed to the card of the most
\* recently completed entry traversal, and one is sent only in an exit that
\* found availableSlots below totalSlots and incremented it.
C9_Original ==
    [][ (ExitStep /\ \E k \in 1..Len(gsm') : IsExited(gsm'[k]))
          => /\ lastEntered >= 0
             /\ \A k \in 1..Len(gsm') :
                   IsExited(gsm'[k])
                     => gsm'[k].to = userPhoneNumbers[lastEntered + 1]
             /\ availableSlots < totalSlots
             /\ availableSlots' = availableSlots + 1 ]_vars

\* C9 (amended): every "exited" SMS is addressed to the card most recently
\* granted access (lastCardIndex), whether or not that card's entry
\* traversal has completed, and one is sent only in an exit that found
\* availableSlots below totalSlots and incremented it.
C9_ExitedToLastGranted ==
    [][ (ExitStep /\ \E k \in 1..Len(gsm') : IsExited(gsm'[k]))
          => /\ exitPin' = LOW
             /\ lastCardIndex >= 0
             /\ \A k \in 1..Len(gsm') :
                   IsExited(gsm'[k])
                     => gsm'[k].to = userPhoneNumbers[lastCardIndex + 1]
             /\ availableSlots < totalSlots
             /\ availableSlots' = availableSlots + 1 ]_vars

\* An "exited" SMS went to a card whose entry has not completed.
C9_Witness ==
    /\ CycleEnd
    /\ "exit" \in branches
    /\ lastCardIndex >= 0
    /\ lastEntered # lastCardIndex
    /\ gsm = << [to |-> userPhoneNumbers[lastCardIndex + 1], text |-> ExitedText] >>

---------------------------------------------------------------------------
(* C10 *)

\* C10 as stated: whenever the session is active when the entry step runs
\* and the entry sensor reports passage, the session is inactive at the end
\* of that cycle, also when an exit traversal closed the gate earlier.
C10_Original ==
    [][ /\ (EntryStep /\ vehicleEntering /\ entryPin' = LOW) => ~vehicleEntering'
        /\ ExitStep => UNCHANGED vehicleEntering ]_vars

\* C10 (amended): whenever the gate is OPEN and the session is active when
\* the entry step runs and the entry sensor reports passage, the session is
\* inactive at the end of that cycle; when the gate is CLOSED (an exit
\* traversal closed it) the session stays active whatever the sensor
\* reports.
C10_SessionEndsOnPassage ==
    [][ /\ EntryCompletes => ~vehicleEntering'
        /\ (EntryStep /\ vehicleEntering /\ ~gateOpen) => vehicleEntering'
        /\ ExitStep => UNCHANGED vehicleEntering ]_vars

\* An entry completed and an exit ran in the same cycle: the session is
\* gone at the cycle's end.
C10_Witness ==
    /\ CycleEnd
    /\ {"entry", "exit"} \subseteq branches
    /\ entryPin = LOW
    /\ ~vehicleEntering

---------------------------------------------------------------------------
(* C11 *)

\* Identifiers checkAuthorization is tried on: the records of the table,
\* every identifier the reader can deliver, and near misses (other case,
\* a prefix, a trailing space, the empty string).
TestIdentifiers ==
    {authorizedCards[i] : i \in 1..Len(authorizedCards)}
    \cup {getCardUID(uid) : uid \in SampleUids}
    \cup { <<"a","1"," ","b","2"," ","c","3"," ","d","4">>,
           <<"A","1"," ","B","2"," ","C","3">>,
           <<"A","1"," ","B","2"," ","C","3"," ","D","4"," ">>,
           <<"A","1","B","2","C","3","D","4">>,
           <<>> }

\* C11: checkAuthorization(id) = i exactly when id equals record i and no
\* record of smaller index; it is -1 exactly when no record equals id; and
\* the card step of a presented card changes the recorded card index only
\* to that result (and nothing of the occupancy count or the GSM log).
C11_AuthorizeFirstMatch ==
    [][ CardStep
          => /\ \A id \in TestIdentifiers :
                   /\ checkAuthorization(id) \in -1..(NUM_AUTHORIZED_CARDS - 1)
                   /\ \A i \in 0..(NUM_AUTHORIZED_CARDS - 1) :
                         (checkAuthorization(id) = i)
                           <=> /\ authorizedCards[i + 1] = id
                               /\ \A j \in 0..(i - 1) : authorizedCards[j + 1] # id
                   /\ (checkAuthorization(id) = -1) <=> ~InDirectory(id)
             /\ Presented
                  => /\ getCardUID(rfid') \in TestIdentifiers
                     /\ lastCardIndex' =
                          IF InDirectory(getCardUID(rfid'))
                          THEN DirectoryIndex(getCardUID(rfid'))
                          ELSE lastCardIndex
                     /\ UNCHANGED <<availableSlots, gsm>> ]_vars

\* Card "A1 B2 C3 D4" was presented after card "11 22 33 44" had entered:
\* the recorded index is 0, the first record.
C11_Witness ==
    /\ pc = "entry"
    /\ rfid = <<161, 178, 195, 212>>
    /\ lastEntered = 2
    /\ lastCardIndex = 0

---------------------------------------------------------------------------
(* C12 *)

\* C12: only the entry-completion branch ends an active session. The
\* refresh step, a card step without a card or with a denied card, and the
\* exit step leave vehicleEntering and lastCardIndex unchanged; a step in
\* which the entry-completion condition does not hold never turns an active
\* session inactive (there is no timeout).
C12_SessionEndsOnlyByEntry ==
    [][ /\ (vehicleEntering /\ ~vehicleEntering') => EntryCompletes
        /\ (pc = "refresh") => UNCHANGED <<vehicleEntering, lastCardIndex>>
        /\ (CardStep /\ rfid' = NoCard)
             => UNCHANGED <<vehicleEntering, lastCardIndex>>
        /\ (Presented /\ ~InDirectory(getCardUID(rfid')))
             => UNCHANGED <<vehicleEntering, lastCardIndex>>
        /\ ExitStep => UNCHANGED <<vehicleEntering, lastCardIndex>>
        /\ (EntryStep /\ ~EntryCompletes)
             => UNCHANGED <<vehicleEntering, lastCardIndex>> ]_vars

\* A session is still active at the end of a later cycle in which a card
\* was denied and an exit traversal ran, the entry sensor reporting passage
\* at a closed gate.
C12_Witness ==
    /\ CycleEnd
    /\ branches = {"denied", "exit"}
    /\ entryPin = LOW
    /\ vehicleEntering
    /\ lastCardIndex = 0
    /\ ~gateOpen

---------------------------------------------------------------------------
(* C13 *)

\* C13: every exit step whose sensor reports presence, whatever gateOpen
\* and vehicleEntering are, commands the gate open and then closed and
\* leaves it CLOSED and the session untouched; when availableSlots already
\* equals totalSlots it leaves the count unchanged and sends no SMS.
C13_ExitIndependent ==
    [][ ExitRuns
          => /\ servo' = servo \o <<90, 0>>
             /\ ~gateOpen'
             /\ UNCHANGED <<vehicleEntering, lastCardIndex>>
             /\ (availableSlots = totalSlots)
                  => /\ availableSlots' = totalSlots
                     /\ gsm' = gsm ]_vars

\* An exit ran in the cycle that granted a card, with the lot empty: the
\* gate was opened for the entry, opened again and closed for the exit, the
\* count is still totalSlots, no SMS, and the session is still pending.
C13_Witness ==
    /\ CycleEnd
    /\ branches = {"granted", "exit"}
    /\ servo = <<90, 90, 0>>
    /\ availableSlots = totalSlots
    /\ gsm = <<>>
    /\ vehicleEntering
    /\ ~gateOpen

---------------------------------------------------------------------------
(* C14 *)

\* C14: at every cycle boundary, an OPEN gate implies an active entry
\* session.
C14_OpenGateHasSession == (CycleEnd /\ gateOpen) => vehicleEntering

\* A cycle ended with the gate open for a pending entry.
C14_Witness ==
    /\ CycleEnd
    /\ gateOpen
    /\ vehicleEntering
    /\ branches = {"granted"}

---------------------------------------------------------------------------
(* C15 *)

\* C15: lastCardIndex is always -1 or an index of the table; it is an index
\* of the table whenever the session is active; every SMS sent is addressed
\* to one of userPhoneNumbers.
C15_CardIndexValid ==
    /\ lastCardIndex \in -1..(NUM_AUTHORIZED_CARDS - 1)
    /\ vehicleEntering => lastCardIndex \in 0..(NUM_AUTHORIZED_CARDS - 1)
    /\ \A k \in 1..Len(gsm) :
          \E i \in 1..NUM_AUTHORIZED_CARDS : gsm[k].to = userPhoneNumbers[i]

\* The last record's card entered and an exit followed in the same cycle:
\* two SMS to the last phone number.
C15_Witness ==
    /\ CycleEnd
    /\ lastCardIndex = NUM_AUTHORIZED_CARDS - 1
    /\ Len(gsm) = 2
    /\ gsm[1].to = userPhoneNumbers[NUM_AUTHORIZED_CARDS]
    /\ gsm[2].to = userPhoneNumbers[NUM_AUTHORIZED_CARDS]

---------------------------------------------------------------------------
(* C17 *)

\* C17: at the end of a cycle in which both the entry-completion branch and
\* the exit branch ran, with f the refreshed count: if f > 0 the count is f
\* again and the cycle sent the "entered" SMS carrying f - 1 and the
\* "exited" SMS to the same card holder; if f = 0 the count is 1.
C17_EntryAndExitSameCycle ==
    (CycleEnd /\ {"entry", "exit"} \subseteq branches)
        => LET f == totalSlots - OccupiedCount(slotPins)
               to == userPhoneNumbers[lastCardIndex + 1]
           IN  /\ lastCardIndex >= 0
               /\ IF f > 0
                  THEN /\ availableSlots = f
                       /\ gsm = << [to |-> to,
                                    text |-> EnteredText \o ToString(f - 1)],
                                   [to |-> to, text |-> ExitedText] >>
                  ELSE availableSlots = 1

\* Both branches ran with every slot free: the count is totalSlots again
\* after two SMS.
C17_Witness ==
    /\ CycleEnd
    /\ {"entry", "exit"} \subseteq branches
    /\ OccupiedCount(slotPins) = 0
    /\ availableSlots = totalSlots
    /\ Len(gsm) = 2

---------------------------------------------------------------------------
(* C16 *)

\* C16 as stated: a granted card j presented while a session for card i is
\* active makes j the session's card; the next entry completion sends a
\* single "entered" SMS, to j's number, and ends the session; without an
\* active session the entry step completes no entry.
C16_Original ==
    [][ /\ (Presented /\ InDirectory(getCardUID(rfid')) /\ vehicleEntering)
             => /\ vehicleEntering'
                /\ lastCardIndex' = DirectoryIndex(getCardUID(rfid'))
        /\ (EntryCompletes /\ replaced >= 0)
             => /\ gsm' = << [to   |-> userPhoneNumbers[lastCardIndex + 1],
                              text |-> EnteredText \o ToString(availableSlots')] >>
                /\ ~vehicleEntering'
        /\ (EntryStep /\ ~vehicleEntering)
             => UNCHANGED <<availableSlots, gateOpen, servo, gsm,
                            vehicleEntering>> ]_vars

\* C16 (amended): a granted card j presented while a session for card i is
\* active makes j the session's card; the next entry completion sends at
\* most one "entered" SMS, none to i: exactly one, to j's number, when
\* availableSlots > 0, and none when availableSlots = 0; it ends the
\* session; without an active session the entry step completes no entry.
C16_SingleSession ==
    [][ /\ (Presented /\ InDirectory(getCardUID(rfid')) /\ vehicleEntering)
             => /\ vehicleEntering'
                /\ lastCardIndex' = DirectoryIndex(getCardUID(rfid'))
        /\ (EntryCompletes /\ replaced >= 0)
             => /\ gsm' = IF availableSlots > 0
                          THEN << [to   |-> userPhoneNumbers[lastCardIndex + 1],
                                   text |-> EnteredText
                                              \o ToString(availableSlots - 1)] >>
                          ELSE <<>>
                /\ ~vehicleEntering'
        /\ (EntryStep /\ ~vehicleEntering)
             => UNCHANGED <<availableSlots, gateOpen, servo, gsm,
                            vehicleEntering>> ]_vars

\* Card "11 22 33 44" was granted while the session of card "A1 B2 C3 D4"
\* was pending, then the entry completed: one SMS, to the third number.
C16_Witness ==
    /\ pc = "exit"
    /\ "entry" \in branches
    /\ replaced = 0
    /\ lastCardIndex = 2
    /\ Len(gsm) = 1
    /\ gsm[1].to = userPhoneNumbers[3]
    /\ IsEntered(gsm[1])
    /\ ~vehicleEntering

====
